---------------------------- MODULE Spec2Model ----------------------------
(***************************************************************************)
(* Model of advanced-vector/vector.h: RawMemory<T> (an owner of raw,       *)
(* uninitialized storage) and Vector<T> (the container built on it).       *)
(*                                                                         *)
(* Two containers, v and w, live on a heap of storage blocks.  Every       *)
(* public operation of Vector is one action.  An action runs the whole     *)
(* member function on a "machine" record m, statement by statement, and    *)
(* then publishes the machine's containers and heap as the new state.      *)
(*                                                                         *)
(* Failures.  Every step of a member function that may throw (operator     *)
(* new, an element constructor, an element assignment) is a fallible step. *)
(* An action draws f, the number of the fallible step of this call that    *)
(* throws (0: none); the machine counts the fallible steps it runs in m.k. *)
(* A step that throws has no effect of its own; the exception then skips   *)
(* the rest of the function, and the destructors of the locals run.        *)
(*                                                                         *)
(* The element type T is described by two traits that are fixed for a      *)
(* behaviour: nothrowMove (std::is_nothrow_move_constructible_v<T>, taken  *)
(* for T's move assignment as well) and copyable                           *)
(* (std::is_copy_constructible_v<T>).  A moved-from element holds the      *)
(* value MovedFrom: T is any type whose move empties its source.  faults   *)
(* tells whether anything throws at all in the behaviour: with ~faults the *)
(* behaviour is a sequence of calls that all complete.                     *)
(*                                                                         *)
(* The claims about one call are stated on the machine: in every reachable *)
(* state, for every call the state allows and every failure point, the     *)
(* machine's result relates to the state as the claim says.                *)
(***************************************************************************)
EXTENDS Integers, Sequences, FiniteSets, TLC

\* Bounds of the model.
MaxSlots == 4       \* total capacity the containers may own between calls
MaxVal == 1         \* element values are 0 (T's default) .. MaxVal

\* The content of one slot of a storage block.
Raw == -2           \* allocated, no object constructed
MovedFrom == -1     \* a constructed object that has been moved from
DefaultVal == 0     \* a value-initialized T
NullBlock == 0      \* nullptr

Vecs == {"v", "w"}
Blocks == 1..(Cardinality(Vecs) + 1)    \* one block per container, one in flight
Values == DefaultVal..MaxVal
Sizes == 0..MaxSlots

VARIABLES faults, nothrowMove, copyable, vec, heap
vars == <<faults, nothrowMove, copyable, vec, heap>>

EmptyBlock == [i \in {} |-> Raw]

\* RawMemory(): buffer_ = nullptr, capacity_ = 0.
EmptyRawMemory == [buffer |-> NullBlock, capacity |-> 0]
\* Vector(): an empty data_, size_ = 0.
EmptyVector == [alive |-> TRUE, data |-> EmptyRawMemory, size |-> 0]
\* A container that is not constructed (before its constructor, after ~Vector).
NoVector == [alive |-> FALSE, data |-> EmptyRawMemory, size |-> 0]

-----------------------------------------------------------------------------
(* The machine a member function runs on.                                  *)

\* vec, heap: the containers and the heap; k: fallible steps run so far;
\* exc: the exception in flight; ctor, dtor: element constructions and
\* destructions; alloc, dealloc: blocks allocated and deallocated; lost:
\* constructed elements whose storage was deallocated or overwritten by a
\* construction without their destructor having run; ret: the block that
\* Allocate returned last; pos: the iterator that Emplace or Erase returns.
Iterator(b, i) == [buffer |-> b, index |-> i]

Start ==
    [vec |-> vec, heap |-> heap, k |-> 0, exc |-> "none", ctor |-> 0, dtor |-> 0,
     alloc |-> 0, dealloc |-> 0, lost |-> 0, ret |-> NullBlock,
     pos |-> Iterator(NullBlock, 0)]

InRange(i, first, n) == first <= i /\ i < first + n

\* The constructed objects among the n slots of block b from slot `first`.
Occupied(h, b, first, n) ==
    IF n = 0 THEN 0
    ELSE Cardinality({i \in DOMAIN h[b] : InRange(i, first, n) /\ h[b][i] # Raw})

FreeBlock(h) ==
    CHOOSE b \in Blocks : DOMAIN h[b] = {} /\ \A c \in Blocks : DOMAIN h[c] = {} => b <= c

\* RawMemory::Allocate: operator new(n * sizeof(T)), or nullptr for n = 0.
Allocate(m, n, f) ==
    IF m.exc # "none" THEN m
    ELSE IF n = 0 THEN [m EXCEPT !.ret = NullBlock]
    ELSE IF m.k + 1 = f THEN [m EXCEPT !.k = @ + 1, !.exc = "bad_alloc"]
    ELSE LET b == FreeBlock(m.heap)
         IN [m EXCEPT !.k = @ + 1, !.heap[b] = [i \in 0..(n - 1) |-> Raw],
                      !.alloc = @ + 1, !.ret = b]

\* RawMemory::Deallocate: operator delete(buf); no destructor runs.
Deallocate(m, b) ==
    IF b = NullBlock THEN m
    ELSE [m EXCEPT !.heap[b] = EmptyBlock, !.dealloc = @ + 1,
                   !.lost = @ + Occupied(m.heap, b, 0, Cardinality(DOMAIN m.heap[b]))]

\* std::destroy_n(b + first, n); noexcept, it also runs while unwinding.
Destroy(m, b, first, n) ==
    IF n = 0 THEN m
    ELSE [m EXCEPT !.heap[b] = [i \in DOMAIN @ |-> IF InRange(i, first, n) THEN Raw ELSE @[i]],
                   !.dtor = @ + n]

\* A std::destroy_n that runs no destructor.
DestroyNSkipped(m, b, first, n) == m

DestroyN(m, b, first, n) == IF m.exc # "none" THEN m ELSE Destroy(m, b, first, n)

\* std::construct_at(b + i, args...): constructs a T of value x in slot i.
ConstructAt(m, b, i, x, f) ==
    IF m.exc # "none" THEN m
    ELSE IF m.k + 1 = f THEN [m EXCEPT !.k = @ + 1, !.exc = "element"]
    ELSE [m EXCEPT !.k = @ + 1, !.heap[b][i] = x, !.ctor = @ + 1,
                   !.lost = @ + Occupied(m.heap, b, i, 1)]

\* A std::uninitialized_value_construct_n that constructs nothing.
UninitializedValueConstructNone(m, b, first, n, f) == m

\* std::uninitialized_value_construct_n(b + first, n): on a throw the
\* algorithm destroys the objects it has constructed and rethrows.
UninitializedValueConstructN(m, b, first, n, f) ==
    IF m.exc # "none" \/ n = 0 THEN m
    ELSE LET r == f - m.k
         IN IF 1 <= r /\ r <= n
            THEN [m EXCEPT !.k = @ + r, !.exc = "element",
                           !.ctor = @ + (r - 1), !.dtor = @ + (r - 1)]
            ELSE [m EXCEPT !.k = @ + n, !.ctor = @ + n,
                           !.lost = @ + Occupied(m.heap, b, first, n),
                           !.heap[b] = [i \in DOMAIN @ |->
                                          IF InRange(i, first, n) THEN DefaultVal ELSE @[i]]]

\* A std::uninitialized_copy_n that leaves the copies it has made in place
\* when a copy throws.
UninitializedCopyNLeaky(m, sb, so, n, db, do, f) ==
    IF m.exc # "none" \/ n = 0 THEN m
    ELSE LET r == f - m.k
             fails == 1 <= r /\ r <= n
             done == IF fails THEN r - 1 ELSE n
         IN [m EXCEPT !.k = @ + (IF fails THEN r ELSE n),
                      !.exc = IF fails THEN "element" ELSE @,
                      !.ctor = @ + done,
                      !.heap[db] = [i \in DOMAIN @ |->
                                      IF InRange(i, do, done)
                                      THEN m.heap[sb][so + (i - do)] ELSE @[i]]]

\* std::uninitialized_copy_n(sb + so, n, db + do): copy-constructs, the
\* sources keep their values; on a throw the copies made are destroyed.
UninitializedCopyN(m, sb, so, n, db, do, f) ==
    IF m.exc # "none" \/ n = 0 THEN m
    ELSE LET r == f - m.k
         IN IF 1 <= r /\ r <= n
            THEN [m EXCEPT !.k = @ + r, !.exc = "element",
                           !.ctor = @ + (r - 1), !.dtor = @ + (r - 1)]
            ELSE [m EXCEPT !.k = @ + n, !.ctor = @ + n,
                           !.lost = @ + Occupied(m.heap, db, do, n),
                           !.heap[db] = [i \in DOMAIN @ |->
                                           IF InRange(i, do, n)
                                           THEN m.heap[sb][so + (i - do)] ELSE @[i]]]

\* std::uninitialized_move_n(sb + so, n, db + do): move-constructs, every
\* source moved from is left MovedFrom; T's move constructor is a fallible
\* step unless it is noexcept.  On a throw the objects constructed so far
\* are destroyed, and their sources stay moved from.
UninitializedMoveN(m, sb, so, n, db, do, f) ==
    IF m.exc # "none" \/ n = 0 THEN m
    ELSE LET r == IF nothrowMove THEN 0 ELSE f - m.k
         IN IF 1 <= r /\ r <= n
            THEN [m EXCEPT !.k = @ + r, !.exc = "element",
                           !.ctor = @ + (r - 1), !.dtor = @ + (r - 1),
                           !.heap[sb] = [i \in DOMAIN @ |->
                                           IF InRange(i, so, r - 1) THEN MovedFrom ELSE @[i]]]
            ELSE [m EXCEPT !.k = @ + (IF nothrowMove THEN 0 ELSE n), !.ctor = @ + n,
                           !.lost = @ + Occupied(m.heap, db, do, n),
                           !.heap = [b \in Blocks |->
                                       IF b = db
                                       THEN [i \in DOMAIN @[b] |->
                                               IF InRange(i, do, n)
                                               THEN m.heap[sb][so + (i - do)] ELSE @[b][i]]
                                       ELSE IF b = sb
                                       THEN [i \in DOMAIN @[b] |->
                                               IF InRange(i, so, n) THEN MovedFrom ELSE @[b][i]]
                                       ELSE @[b]]]

\* A relocation that moves whatever the element type.
AlwaysMove(m, sb, so, n, db, do, f) == UninitializedMoveN(m, sb, so, n, db, do, f)

\* MOVE_OR_COPY_IF_NOEXCEPT(old_begin, new_begin, count).
MoveOrCopyIfNoexcept(m, sb, so, n, db, do, f) ==
    IF nothrowMove \/ ~copyable
    THEN UninitializedMoveN(m, sb, so, n, db, do, f)
    ELSE UninitializedCopyN(m, sb, so, n, db, do, f)

\* One move construction, std::construct_at(db + di, std::move(sb[si])).
MoveConstructAt(m, sb, si, db, di, f) ==
    IF m.exc # "none" THEN m
    ELSE IF ~nothrowMove /\ m.k + 1 = f THEN [m EXCEPT !.k = @ + 1, !.exc = "element"]
    ELSE [m EXCEPT !.k = @ + (IF nothrowMove THEN 0 ELSE 1), !.ctor = @ + 1,
                   !.lost = @ + Occupied(m.heap, db, di, 1),
                   !.heap[db][di] = m.heap[sb][si], !.heap[sb][si] = MovedFrom]

\* A std::copy that assigns nothing.
CopyRangeSkipped(m, sb, so, n, db, do, f) == m

\* std::copy(sb + so, sb + so + n, db + do): n copy assignments in
\* increasing order; one that throws leaves the earlier ones done.
CopyRange(m, sb, so, n, db, do, f) ==
    IF m.exc # "none" \/ n = 0 THEN m
    ELSE LET r == f - m.k
             fails == 1 <= r /\ r <= n
             done == IF fails THEN r - 1 ELSE n
         IN [m EXCEPT !.k = @ + (IF fails THEN r ELSE n),
                      !.exc = IF fails THEN "element" ELSE @,
                      !.heap[db] = [i \in DOMAIN @ |->
                                      IF InRange(i, do, done)
                                      THEN m.heap[sb][so + (i - do)] ELSE @[i]]]

\* Erase without its shift of the elements after pos.
MoveRangeSkipped(m, b, s, n, d, f) == m

\* std::move(b + s, b + s + n, b + d) with d < s: n move assignments in
\* increasing order.  A slot moved from is MovedFrom until a later
\* assignment of the same loop writes it.
MoveRange(m, b, s, n, d, f) ==
    IF m.exc # "none" \/ n = 0 THEN m
    ELSE LET r == IF nothrowMove THEN 0 ELSE f - m.k
             fails == 1 <= r /\ r <= n
             done == IF fails THEN r - 1 ELSE n
         IN [m EXCEPT !.k = @ + (IF nothrowMove THEN 0 ELSE IF fails THEN r ELSE n),
                      !.exc = IF fails THEN "element" ELSE @,
                      !.heap[b] = [i \in DOMAIN @ |->
                                     IF InRange(i, d, done) THEN @[i + (s - d)]
                                     ELSE IF InRange(i, s, done) THEN MovedFrom
                                     ELSE @[i]]]

\* std::move_backward(b + s, b + s + n, b + e) with e > s + n: n move
\* assignments in decreasing order, the last element first.
MoveBackward(m, b, s, n, e, f) ==
    IF m.exc # "none" \/ n = 0 THEN m
    ELSE LET r == IF nothrowMove THEN 0 ELSE f - m.k
             fails == 1 <= r /\ r <= n
             done == IF fails THEN r - 1 ELSE n
         IN [m EXCEPT !.k = @ + (IF nothrowMove THEN 0 ELSE IF fails THEN r ELSE n),
                      !.exc = IF fails THEN "element" ELSE @,
                      !.heap[b] = [i \in DOMAIN @ |->
                                     IF InRange(i, e - done, done) THEN @[i - (e - (s + n))]
                                     ELSE IF InRange(i, s + n - done, done) THEN MovedFrom
                                     ELSE @[i]]]

\* T temp(args...): a local element of value x.
TempConstruct(m, x, f) ==
    IF m.exc # "none" THEN m
    ELSE IF m.k + 1 = f THEN [m EXCEPT !.k = @ + 1, !.exc = "element"]
    ELSE [m EXCEPT !.k = @ + 1, !.ctor = @ + 1]

\* Emplace without its last assignment, *insert_pos = std::move(temp).
MoveAssignTempSkipped(m, b, i, x, f) == m

\* *(b + i) = std::move(temp): one move assignment from the local of value x.
MoveAssignTemp(m, b, i, x, f) ==
    IF m.exc # "none" THEN m
    ELSE IF ~nothrowMove /\ m.k + 1 = f THEN [m EXCEPT !.k = @ + 1, !.exc = "element"]
    ELSE [m EXCEPT !.k = @ + (IF nothrowMove THEN 0 ELSE 1), !.heap[b][i] = x]

\* b[i] = x: one copy assignment of a value to a live element.
CopyAssignValue(m, b, i, x, f) ==
    IF m.exc # "none" THEN m
    ELSE IF m.k + 1 = f THEN [m EXCEPT !.k = @ + 1, !.exc = "element"]
    ELSE [m EXCEPT !.k = @ + 1, !.heap[b][i] = x]

-----------------------------------------------------------------------------
(* The member functions of Vector<T>, run on a machine.                    *)

RawMemory(b, n) == [buffer |-> b, capacity |-> n]

\* Vector(): data_ and size_ from their default member initializers.
VectorDefault(m, v) == [m EXCEPT !.vec[v] = EmptyVector]

\* A sized constructor that ignores its size.
VectorSizedEmpty(m, v, n, f) == VectorDefault(m, v)

\* explicit Vector(size_t size).  data_ is a complete member when the
\* elements are constructed, so ~RawMemory releases it if one throws.
VectorSized(m, v, n, f) ==
    LET m1 == Allocate(m, n, f)
        b == m1.ret
        m2 == UninitializedValueConstructN(m1, b, 0, n, f)
    IN IF m1.exc # "none" THEN m1
       ELSE IF m2.exc # "none" THEN Deallocate(m2, b)
       ELSE [m2 EXCEPT !.vec[v] = [alive |-> TRUE, data |-> RawMemory(b, n), size |-> n]]

\* A copy constructor that copies the pointer instead of the elements.
VectorCopyShallow(m, v, o, f) ==
    [m EXCEPT !.vec[v] = [alive |-> TRUE, data |-> m.vec[o].data, size |-> m.vec[o].size]]

\* Vector(const Vector& other).
VectorCopy(m, v, o, f) ==
    LET n == m.vec[o].size
        m1 == Allocate(m, n, f)
        b == m1.ret
        m2 == UninitializedCopyN(m1, m.vec[o].data.buffer, 0, n, b, 0, f)
    IN IF m1.exc # "none" THEN m1
       ELSE IF m2.exc # "none" THEN Deallocate(m2, b)
       ELSE [m2 EXCEPT !.vec[v] = [alive |-> TRUE, data |-> RawMemory(b, n), size |-> n]]

\* A move constructor without other.size_ = 0.
VectorMoveKeepsSize(m, v, o) ==
    [m EXCEPT !.vec[v] = [alive |-> TRUE, data |-> m.vec[o].data, size |-> m.vec[o].size],
              !.vec[o].data = EmptyRawMemory]

\* Vector(Vector&& other) noexcept, with RawMemory(RawMemory&&).
VectorMove(m, v, o) ==
    [m EXCEPT !.vec[v] = [alive |-> TRUE, data |-> m.vec[o].data, size |-> m.vec[o].size],
              !.vec[o] = EmptyVector]

\* ~Vector(), then ~RawMemory() of data_.
VectorDestroy(m, v) ==
    LET b == m.vec[v].data.buffer
        m1 == Destroy(m, b, 0, m.vec[v].size)
    IN [Deallocate(m1, b) EXCEPT !.vec[v] = NoVector]

\* void Swap(Vector& other) noexcept, with RawMemory::Swap.
Swap(m, v, o) ==
    [m EXCEPT !.vec[v] = [@ EXCEPT !.data = m.vec[o].data, !.size = m.vec[o].size],
              !.vec[o] = [@ EXCEPT !.data = m.vec[v].data, !.size = m.vec[v].size]]

\* Vector& operator=(const Vector& rhs).
CopyAssign(m, v, o, f) ==
    LET l == m.vec[v]
        r == m.vec[o]
    IN IF v = o THEN m
       ELSE IF r.size > l.data.capacity
       THEN \* Vector tmp(rhs); Swap(tmp); then ~tmp on the old elements.
            LET m1 == Allocate(m, r.size, f)
                b == m1.ret
                m2 == UninitializedCopyN(m1, r.data.buffer, 0, r.size, b, 0, f)
                m3 == [m2 EXCEPT !.vec[v] = [@ EXCEPT !.data = RawMemory(b, r.size),
                                                      !.size = r.size]]
            IN IF m1.exc # "none" THEN m1
               ELSE IF m2.exc # "none" THEN Deallocate(m2, b)
               ELSE Deallocate(Destroy(m3, l.data.buffer, 0, l.size), l.data.buffer)
       ELSE LET m1 == IF r.size > l.size
                      THEN UninitializedCopyN(
                               CopyRange(m, r.data.buffer, 0, l.size, l.data.buffer, 0, f),
                               r.data.buffer, l.size, r.size - l.size,
                               l.data.buffer, l.size, f)
                      ELSE DestroyN(
                               CopyRange(m, r.data.buffer, 0, r.size, l.data.buffer, 0, f),
                               l.data.buffer, r.size, l.size - r.size)
            IN IF m1.exc # "none" THEN m1 ELSE [m1 EXCEPT !.vec[v].size = r.size]

\* A RawMemory move assignment that does not deallocate the block it holds.
RawMemoryMoveAssignKeepsBlock(m, v, o) ==
    IF v = o THEN m
    ELSE [m EXCEPT !.vec[v].data = m.vec[o].data, !.vec[o].data = EmptyRawMemory]

\* RawMemory& operator=(RawMemory&& other) noexcept, on the data_ of v and o.
RawMemoryMoveAssign(m, v, o) ==
    IF v = o THEN m
    ELSE LET m1 == IF m.vec[v].data.buffer # NullBlock
                   THEN Deallocate(m, m.vec[v].data.buffer) ELSE m
         IN [m1 EXCEPT !.vec[v].data = m.vec[o].data, !.vec[o].data = EmptyRawMemory]

\* Vector& operator=(Vector&& rhs) noexcept.
MoveAssign(m, v, o) ==
    IF v = o THEN m
    ELSE LET m1 == RawMemoryMoveAssign(m, v, o)
         IN [m1 EXCEPT !.vec[v].size = m.vec[o].size, !.vec[o].size = 0]

\* Reserve leaving only for new_capacity < data_.Capacity().
FitsCapacityStrictly(n, cap) == n < cap

\* Reserve's test, new_capacity <= data_.Capacity(): nothing to do.
FitsCapacity(n, cap) == n <= cap

\* A growth policy of one more slot.
GrowCapacityByOne(sz) == sz + 1

\* Emplace's new capacity, size_ == 0 ? 1 : 2 * size_.
GrowCapacity(sz) == IF sz = 0 THEN 1 ELSE 2 * sz

\* void Reserve(size_t new_capacity).  new_data is a local: ~RawMemory
\* releases the block it holds when the function is left, the new block
\* if an element threw, the old one after data_.Swap(new_data).
Reserve(m, v, n, f) ==
    LET old == m.vec[v].data
        sz == m.vec[v].size
    IN IF m.exc # "none" \/ FitsCapacity(n, old.capacity) THEN m
       ELSE LET m1 == Allocate(m, n, f)
                nb == m1.ret
                m2 == MoveOrCopyIfNoexcept(m1, old.buffer, 0, sz, nb, 0, f)
                m3 == DestroyN(m2, old.buffer, 0, sz)
            IN IF m1.exc # "none" THEN m1
               ELSE IF m3.exc # "none" THEN Deallocate(m3, nb)
               ELSE Deallocate([m3 EXCEPT !.vec[v].data = RawMemory(nb, n)], old.buffer)

\* void Resize(size_t new_size).
Resize(m, v, n, f) ==
    LET m1 == IF n > m.vec[v].data.capacity THEN Reserve(m, v, n, f) ELSE m
        b == m1.vec[v].data.buffer
        sz == m1.vec[v].size
        m2 == IF n > sz
              THEN UninitializedValueConstructN(m1, b, sz, n - sz, f)
              ELSE DestroyN(m1, b, n, sz - n)
    IN IF m2.exc # "none" THEN m2 ELSE [m2 EXCEPT !.vec[v].size = n]

\* iterator Emplace(const_iterator pos, Args&&... args), pos = begin() + p,
\* the arguments constructing a T of value x.
Emplace(m, v, p, x, f) ==
    LET old == m.vec[v].data
        b == old.buffer
        sz == m.vec[v].size
    IN IF sz < old.capacity
       THEN IF p = sz
            THEN LET m1 == ConstructAt(m, b, sz, x, f)
                 IN IF m1.exc # "none" THEN m1
                    ELSE [m1 EXCEPT !.vec[v].size = sz + 1, !.pos = Iterator(b, p)]
            ELSE LET m1 == TempConstruct(m, x, f)
                     m2 == MoveConstructAt(m1, b, sz - 1, b, sz, f)
                     m3 == MoveBackward(m2, b, p, sz - 1 - p, sz, f)
                     m4 == MoveAssignTemp(m3, b, p, x, f)
                     m5 == IF m4.exc # "none" THEN m4
                           ELSE [m4 EXCEPT !.vec[v].size = sz + 1, !.pos = Iterator(b, p)]
                 IN IF m1.exc # "none" THEN m1
                    ELSE [m5 EXCEPT !.dtor = @ + 1]      \* ~temp
       ELSE LET nc == GrowCapacity(sz)
                m1 == Allocate(m, nc, f)
                nb == m1.ret
                m2 == MoveOrCopyIfNoexcept(m1, b, 0, p, nb, 0, f)
                m3 == ConstructAt(m2, nb, p, x, f)
                m4 == MoveOrCopyIfNoexcept(m3, b, p, sz - p, nb, p + 1, f)
                m5 == DestroyN(m4, b, 0, sz)
            IN IF m1.exc # "none" THEN m1
               ELSE IF m5.exc # "none" THEN Deallocate(m5, nb)
               ELSE Deallocate([m5 EXCEPT !.vec[v].data = RawMemory(nb, nc),
                                          !.vec[v].size = sz + 1,
                                          !.pos = Iterator(nb, p)], b)

\* Emplace(pos, args) where args is a reference to the element (*this)[i]
\* (v.PushBack(v[i]), v.Insert(pos, v[i])): the new element is constructed
\* from what that element holds when its constructor runs.  With spare
\* capacity this is the first step (std::construct_at at end(), or T temp),
\* so the value is the one the call started with; the reallocating path
\* reads the old block after it has relocated the prefix.
EmplaceFrom(m, v, p, i, f) ==
    LET old == m.vec[v].data
        b == old.buffer
        sz == m.vec[v].size
    IN IF sz < old.capacity
       THEN Emplace(m, v, p, m.heap[b][i], f)
       ELSE LET nc == GrowCapacity(sz)
                m1 == Allocate(m, nc, f)
                nb == m1.ret
                m2 == MoveOrCopyIfNoexcept(m1, b, 0, p, nb, 0, f)
                m3 == ConstructAt(m2, nb, p, m2.heap[b][i], f)
                m4 == MoveOrCopyIfNoexcept(m3, b, p, sz - p, nb, p + 1, f)
                m5 == DestroyN(m4, b, 0, sz)
            IN IF m1.exc # "none" THEN m1
               ELSE IF m5.exc # "none" THEN Deallocate(m5, nb)
               ELSE Deallocate([m5 EXCEPT !.vec[v].data = RawMemory(nb, nc),
                                          !.vec[v].size = sz + 1,
                                          !.pos = Iterator(nb, p)], b)

\* PopBack that only decrements size_ and leaves the object in its slot.
PopBackKeepsObject(m, v) ==
    IF m.exc # "none" THEN m ELSE [m EXCEPT !.vec[v].size = @ - 1]

\* void PopBack().
PopBack(m, v) ==
    IF m.exc # "none" THEN m
    ELSE [Destroy(m, m.vec[v].data.buffer, m.vec[v].size - 1, 1)
            EXCEPT !.vec[v].size = @ - 1]

\* iterator Erase(const_iterator pos), pos = begin() + p.
Erase(m, v, p, f) ==
    LET m1 == MoveRange(m, m.vec[v].data.buffer, p + 1, m.vec[v].size - 1 - p, p, f)
        m2 == PopBack(m1, v)
    IN IF m2.exc # "none" THEN m2
       ELSE [m2 EXCEPT !.pos = Iterator(m.vec[v].data.buffer, p)]

\* T& operator[](size_t index), used as v[i] = x.
Subscript(m, v, i, x, f) == CopyAssignValue(m, m.vec[v].data.buffer, i, x, f)

-----------------------------------------------------------------------------
(* The state machine.                                                      *)

Alive(v) == vec[v].alive
Size(v) == vec[v].size
Capacity(v) == vec[v].data.capacity
Buffer(v) == vec[v].data.buffer
Other(v) == CHOOSE o \in Vecs : o # v

\* The capacity the containers of vc own together.
SumCapacity(vc) == vc["v"].data.capacity + vc["w"].data.capacity

\* A call that would take the containers past MaxSlots slots is not made.
Called(m) == SumCapacity(m.vec) <= MaxSlots

\* operator new may return any free address, and the program only compares
\* addresses for identity.  The state kept between calls names the blocks
\* by a fixed renaming: the block of container "v" is 1, that of "w" is 2,
\* and a block that no container owns is 3.  A heap that this cannot name
\* (two such blocks, or one block in two containers) is kept as it is.
Renamed(m) ==
    LET bv == m.vec["v"].data.buffer
        bw == m.vec["w"].data.buffer
        orphans == {b \in Blocks : DOMAIN m.heap[b] # {} /\ b # bv /\ b # bw}
    IN IF Cardinality(orphans) > 1 \/ (bv = bw /\ bv # NullBlock)
       THEN [vec |-> m.vec, heap |-> m.heap]
       ELSE [vec |-> [m.vec EXCEPT !["v"].data.buffer = IF bv = NullBlock THEN @ ELSE 1,
                                   !["w"].data.buffer = IF bw = NullBlock THEN @ ELSE 2],
             heap |-> [b \in Blocks |->
                         IF b = 1 THEN (IF bv = NullBlock THEN EmptyBlock ELSE m.heap[bv])
                         ELSE IF b = 2 THEN (IF bw = NullBlock THEN EmptyBlock ELSE m.heap[bw])
                         ELSE IF orphans = {} THEN EmptyBlock
                         ELSE m.heap[CHOOSE c \in orphans : TRUE]]]

\* The step of one call: the machine's result becomes the state.
Call(m) ==
    /\ Called(m)
    /\ LET r == Renamed(m)
       IN vec' = r.vec /\ heap' = r.heap
    /\ UNCHANGED <<faults, nothrowMove, copyable>>

\* The fallible steps of a call are those of its run without a failure, m;
\* the failure injected is one of them, or none (0).  Nothing fails for an
\* element type and an allocator that never throw (~faults).
FailPoints(m) == IF faults THEN 0..m.k ELSE {0}

Init ==
    /\ faults \in BOOLEAN
    /\ nothrowMove \in BOOLEAN
    /\ copyable \in BOOLEAN
    /\ vec = [v \in Vecs |-> NoVector]
    /\ heap = [b \in Blocks |-> EmptyBlock]

DefaultConstruct(v) ==
    /\ ~Alive(v)
    /\ Call(VectorDefault(Start, v))

SizedConstruct(v, n) ==
    /\ ~Alive(v)
    /\ \E f \in FailPoints(VectorSized(Start, v, n, 0)) :
           Call(VectorSized(Start, v, n, f))

CopyConstruct(v, o) ==
    /\ copyable /\ o # v /\ ~Alive(v) /\ Alive(o)
    /\ \E f \in FailPoints(VectorCopy(Start, v, o, 0)) :
           Call(VectorCopy(Start, v, o, f))

MoveConstruct(v, o) ==
    /\ o # v /\ ~Alive(v) /\ Alive(o)
    /\ Call(VectorMove(Start, v, o))

Destruct(v) ==
    /\ Alive(v)
    /\ Call(VectorDestroy(Start, v))

DoCopyAssign(v, o) ==
    /\ copyable /\ Alive(v) /\ Alive(o)
    /\ \E f \in FailPoints(CopyAssign(Start, v, o, 0)) :
           Call(CopyAssign(Start, v, o, f))

DoMoveAssign(v, o) ==
    /\ Alive(v) /\ Alive(o)
    /\ Call(MoveAssign(Start, v, o))

DoSwap(v, o) ==
    /\ Alive(v) /\ Alive(o)
    /\ Call(Swap(Start, v, o))

DoReserve(v, n) ==
    /\ Alive(v)
    /\ \E f \in FailPoints(Reserve(Start, v, n, 0)) :
           Call(Reserve(Start, v, n, f))

DoResize(v, n) ==
    /\ Alive(v)
    /\ \E f \in FailPoints(Resize(Start, v, n, 0)) :
           Call(Resize(Start, v, n, f))

\* PushBack(const T&), PushBack(T&&) and EmplaceBack(args...) are
\* Emplace(end(), ...): the new element is constructed from the argument.
DoPushBack(v, x) ==
    /\ Alive(v)
    /\ \E f \in FailPoints(Emplace(Start, v, Size(v), x, 0)) :
           Call(Emplace(Start, v, Size(v), x, f))

\* Insert(pos, const T&), Insert(pos, T&&) and Emplace(pos, args...).
DoEmplace(v, p, x) ==
    /\ Alive(v) /\ p <= Size(v)
    /\ \E f \in FailPoints(Emplace(Start, v, p, x, 0)) :
           Call(Emplace(Start, v, p, x, f))

\* PushBack(v[i]), Insert(pos, v[i]): the value is an element of v itself,
\* passed by const reference and copied.
DoEmplaceFrom(v, p, i) ==
    /\ copyable /\ Alive(v) /\ p <= Size(v) /\ i < Size(v)
    /\ \E f \in FailPoints(EmplaceFrom(Start, v, p, i, 0)) :
           Call(EmplaceFrom(Start, v, p, i, f))

DoErase(v, p) ==
    /\ Alive(v) /\ p < Size(v)
    /\ \E f \in FailPoints(Erase(Start, v, p, 0)) :
           Call(Erase(Start, v, p, f))

DoPopBack(v) ==
    /\ Alive(v) /\ Size(v) > 0
    /\ Call(PopBack(Start, v))

DoSubscript(v, i, x) ==
    /\ Alive(v) /\ i < Size(v)
    /\ \E f \in FailPoints(Subscript(Start, v, i, x, 0)) :
           Call(Subscript(Start, v, i, x, f))

Next ==
    \E v \in Vecs :
        \/ DefaultConstruct(v)
        \/ \E n \in Sizes : SizedConstruct(v, n)
        \/ \E o \in Vecs : CopyConstruct(v, o)
        \/ \E o \in Vecs : MoveConstruct(v, o)
        \/ Destruct(v)
        \/ \E o \in Vecs : DoCopyAssign(v, o)
        \/ \E o \in Vecs : DoMoveAssign(v, o)
        \/ \E o \in Vecs : DoSwap(v, o)
        \/ \E n \in Sizes : DoReserve(v, n)
        \/ \E n \in Sizes : DoResize(v, n)
        \/ \E x \in Values : DoPushBack(v, x)
        \/ \E p \in Sizes, x \in Values : DoEmplace(v, p, x)
        \/ \E p \in Sizes, i \in Sizes : DoEmplaceFrom(v, p, i)
        \/ \E p \in Sizes : DoErase(v, p)
        \/ DoPopBack(v)
        \/ \E i \in Sizes, x \in Values : DoSubscript(v, i, x)

Spec == Init /\ [][Next]_vars

-----------------------------------------------------------------------------
(* What a caller observes of a container.                                  *)

\* The element values of container v, in order, in the containers vc on heap h.
Elems(vc, h, v) == [i \in 1..vc[v].size |-> h[vc[v].data.buffer][i - 1]]

\* The sequence s with x inserted before position p (counted from 0).
InsertAt(s, p, x) == SubSeq(s, 1, p) \o <<x>> \o SubSeq(s, p + 1, Len(s))

\* The sequence s without its element at position p (counted from 0).
RemoveAt(s, p) == SubSeq(s, 1, p) \o SubSeq(s, p + 2, Len(s))

\* Container v is well formed: size_ <= capacity, its block has capacity
\* slots (no block for capacity 0), and the constructed slots are exactly
\* the first size_ ones.
WellFormed(vc, h, v) ==
    LET d == vc[v].data
    IN /\ 0 <= vc[v].size /\ vc[v].size <= d.capacity
       /\ d.buffer = NullBlock => d.capacity = 0
       /\ d.buffer # NullBlock =>
              /\ DOMAIN h[d.buffer] = 0..(d.capacity - 1)
              /\ \A i \in 0..(d.capacity - 1) : (h[d.buffer][i] # Raw) <=> (i < vc[v].size)

\* Size(), Capacity() and the element at every index of container v.
View(vc, h, v) ==
    [size |-> vc[v].size, capacity |-> vc[v].data.capacity, elems |-> Elems(vc, h, v)]

\* The elements the containers vc hold.
TotalSize(vc) == vc["v"].size + vc["w"].size

\* Nothing is left behind on heap h: every allocated block is the block of
\* one live container, and no slot outside a container's [0, size_) holds
\* a constructed object.
NothingLeftBehind(vc, h) ==
    /\ \A b \in Blocks :
           DOMAIN h[b] # {} =>
               \E v \in Vecs : /\ vc[v].alive /\ vc[v].data.buffer = b
                               /\ \A u \in Vecs \ {v} : vc[u].data.buffer # b
    /\ \A v \in Vecs : vc[v].alive => WellFormed(vc, h, v)

\* P holds of the machine's result for every call on container v that
\* takes no other container, or takes it as a const reference: every
\* operation, argument and failure point the state allows.
OwnCalls(v, P(_)) ==
    LET o == Other(v)
    IN /\ ~Alive(v) =>
            /\ P(VectorDefault(Start, v))
            /\ \A n \in Sizes : \A f \in FailPoints(VectorSized(Start, v, n, 0)) :
                   P(VectorSized(Start, v, n, f))
            /\ (copyable /\ Alive(o)) =>
                   \A f \in FailPoints(VectorCopy(Start, v, o, 0)) :
                       P(VectorCopy(Start, v, o, f))
       /\ Alive(v) =>
            /\ P(VectorDestroy(Start, v))
            /\ \A u \in Vecs :
                   (copyable /\ Alive(u)) =>
                       \A f \in FailPoints(CopyAssign(Start, v, u, 0)) :
                           P(CopyAssign(Start, v, u, f))
            /\ \A n \in Sizes :
                   /\ \A f \in FailPoints(Reserve(Start, v, n, 0)) :
                          P(Reserve(Start, v, n, f))
                   /\ \A f \in FailPoints(Resize(Start, v, n, 0)) :
                          P(Resize(Start, v, n, f))
            /\ \A p \in 0..Size(v), x \in Values :
                   \A f \in FailPoints(Emplace(Start, v, p, x, 0)) :
                       P(Emplace(Start, v, p, x, f))
            /\ copyable =>
                   \A p \in 0..Size(v), i \in 0..(Size(v) - 1) :
                       \A f \in FailPoints(EmplaceFrom(Start, v, p, i, 0)) :
                           P(EmplaceFrom(Start, v, p, i, f))
            /\ \A p \in 0..(Size(v) - 1) :
                   /\ \A f \in FailPoints(Erase(Start, v, p, 0)) :
                          P(Erase(Start, v, p, f))
                   /\ \A x \in Values :
                          \A f \in FailPoints(Subscript(Start, v, p, x, 0)) :
                              P(Subscript(Start, v, p, x, f))
            /\ Size(v) > 0 => P(PopBack(Start, v))

\* The same for the calls on v that take another container to change it:
\* the move constructor, the move assignment and Swap.
TransferCalls(v, P(_)) ==
    /\ (~Alive(v) /\ Alive(Other(v))) => P(VectorMove(Start, v, Other(v)))
    /\ Alive(v) =>
           \A u \in Vecs : Alive(u) => (P(MoveAssign(Start, v, u)) /\ P(Swap(Start, v, u)))

EveryCall(P(_)) == \A v \in Vecs : OwnCalls(v, P) /\ TransferCalls(v, P)

-----------------------------------------------------------------------------
(* C1: after any sequence of calls that all complete, every container has  *)
(* 0 <= Size() <= Capacity(), its slots [0, Size()) are exactly the        *)
(* constructed ones and its slots [Size(), Capacity()) hold no object.     *)
C1_SizeAndSlots == ~faults => \A v \in Vecs : Alive(v) => WellFormed(vec, heap, v)

\* Both containers hold elements, one of them with a raw slot left.
C1_Witness ==
    /\ ~faults
    /\ \E v \in Vecs :
          /\ Alive(v) /\ Size(v) = 2 /\ Capacity(v) = 3
          /\ Alive(Other(v)) /\ Size(Other(v)) = 1

-----------------------------------------------------------------------------
(* C2: when an element construction throws during a growing Reserve(n)     *)
(* (n > Capacity()) or during a PushBack/EmplaceBack at Size() ==          *)
(* Capacity(), the container's Size(), Capacity() and the element at every *)
(* index are afterwards what they were before the call.                    *)
C2_ReserveUnchangedOnThrow ==
    \A v \in Vecs, n \in Sizes :
        (Alive(v) /\ n > Capacity(v)) =>
            \A f \in FailPoints(Reserve(Start, v, n, 0)) :
                LET r == Reserve(Start, v, n, f)
                IN r.exc = "element" => View(r.vec, r.heap, v) = View(vec, heap, v)

C2_PushBackUnchangedOnThrow ==
    \A v \in Vecs, x \in Values :
        (Alive(v) /\ Size(v) = Capacity(v)) =>
            \A f \in FailPoints(Emplace(Start, v, Size(v), x, 0)) :
                LET r == Emplace(Start, v, Size(v), x, f)
                IN r.exc = "element" => View(r.vec, r.heap, v) = View(vec, heap, v)

C2_StrongGuaranteeOnGrowth == C2_ReserveUnchangedOnThrow /\ C2_PushBackUnchangedOnThrow

-----------------------------------------------------------------------------
(* C3: on every failure path of every operation, the elements the call     *)
(* constructed are destroyed and the blocks it allocated are deallocated   *)
(* before the failure reaches the caller: a call that starts with nothing  *)
(* left behind and throws loses no element and leaves nothing behind.      *)
C3_CleanOnThrow(m) ==
    m.exc # "none" => (m.lost = 0 /\ NothingLeftBehind(m.vec, m.heap))

C3_NoLeakOnFailure == NothingLeftBehind(vec, heap) => EveryCall(C3_CleanOnThrow)

-----------------------------------------------------------------------------
(* C4: across calls that all complete, every constructed element is        *)
(* destroyed exactly once, and before its block is deallocated: a call     *)
(* loses no element, and its constructions less its destructions are the   *)
(* elements the containers gained.                                         *)
C4_Balanced(m) ==
    /\ m.lost = 0
    /\ m.ctor - m.dtor = TotalSize(m.vec) - TotalSize(vec)

C4_EveryElementDestroyed == ~faults => EveryCall(C4_Balanced)

-----------------------------------------------------------------------------
(* C5: a PushBack/EmplaceBack/Insert/Emplace at Size() == Capacity() sets  *)
(* the capacity to max(1, 2 x capacity), one at Size() < Capacity() leaves *)
(* it; so n appends to an empty container give Size() == n, and after the  *)
(* i-th of them the capacity is the first power of two >= i.               *)
Max(a, b) == IF a >= b THEN a ELSE b

\* The first power of two >= n (0 for n = 0).
RECURSIVE PowerOfTwoFrom(_, _)
PowerOfTwoFrom(c, n) == IF c >= n THEN c ELSE PowerOfTwoFrom(2 * c, n)
FirstPowerOfTwo(n) == IF n = 0 THEN 0 ELSE PowerOfTwoFrom(1, n)

\* The machine after n calls v.PushBack(x) that complete.
RECURSIVE Appended(_, _, _, _)
Appended(m, v, n, x) ==
    IF n = 0 THEN m
    ELSE LET m1 == Appended(m, v, n - 1, x)
         IN Emplace(m1, v, m1.vec[v].size, x, 0)

C5_GrowthPolicy ==
    \A v \in Vecs :
        Alive(v) =>
            /\ \A p \in 0..Size(v), x \in Values :
                   LET r == Emplace(Start, v, p, x, 0)
                   IN /\ r.exc = "none"
                      /\ Size(v) = Capacity(v) =>
                             r.vec[v].data.capacity = Max(1, 2 * Capacity(v))
                      /\ Size(v) < Capacity(v) => r.vec[v].data.capacity = Capacity(v)
            /\ (Size(v) = 0 /\ Capacity(v) = 0) =>
                   \A n \in 0..(2 * MaxSlots + 1), x \in Values :
                       LET r == Appended(Start, v, n, x)
                       IN /\ r.vec[v].size = n
                          /\ r.vec[v].data.capacity = FirstPowerOfTwo(n)

\* A full container of two elements is about to grow to four slots, and
\* an empty one is about to be appended to.
C5_Witness ==
    \E v \in Vecs, x \in Values :
        /\ Alive(v) /\ Size(v) = 2 /\ Capacity(v) = 2
        /\ Called(Emplace(Start, v, 2, x, 0))
        /\ Alive(Other(v)) /\ Capacity(Other(v)) = 0

-----------------------------------------------------------------------------
(* C6: Insert/Emplace of x at position p of a container of length n, with  *)
(* spare capacity or reallocating, yields length n + 1 with the old        *)
(* elements [0, p), then x, then the old elements [p, n), and returns the  *)
(* position p of the resulting storage.                                    *)
C6_InsertPlacesValue ==
    \A v \in Vecs :
        Alive(v) =>
            \A p \in 0..Size(v), x \in Values :
                LET r == Emplace(Start, v, p, x, 0)
                IN /\ r.exc = "none"
                   /\ r.vec[v].size = Size(v) + 1
                   /\ Elems(r.vec, r.heap, v) = InsertAt(Elems(vec, heap, v), p, x)
                   /\ r.pos = Iterator(r.vec[v].data.buffer, p)

\* One container takes an insertion before its last element in place, the
\* other one takes an insertion at its front by reallocating.
C6_Witness ==
    \E v \in Vecs, x \in Values :
        /\ Alive(v) /\ Size(v) = 2 /\ Capacity(v) = 3
        /\ Elems(vec, heap, v) = <<MaxVal, DefaultVal>>
        /\ Called(Emplace(Start, v, 1, x, 0))
        /\ Alive(Other(v)) /\ Size(Other(v)) = Capacity(Other(v))

-----------------------------------------------------------------------------
(* C7: Erase(p) on a container of length n >= 1 yields length n - 1 with   *)
(* the old elements [0, p) and (p, n) in order, destroys exactly one       *)
(* element and leaves the capacity; Insert(p, x) then Erase(p) restores    *)
(* the elements and the size.                                              *)
C7_EraseRemovesOne ==
    \A v \in Vecs :
        Alive(v) =>
            /\ \A p \in 0..(Size(v) - 1) :
                   LET r == Erase(Start, v, p, 0)
                   IN /\ r.exc = "none"
                      /\ r.vec[v].size = Size(v) - 1
                      /\ Elems(r.vec, r.heap, v) = RemoveAt(Elems(vec, heap, v), p)
                      /\ r.dtor = 1 /\ r.ctor = 0
                      /\ r.vec[v].data = vec[v].data
            /\ \A p \in 0..Size(v), x \in Values :
                   LET r == Erase(Emplace(Start, v, p, x, 0), v, p, 0)
                   IN /\ r.exc = "none"
                      /\ r.vec[v].size = Size(v)
                      /\ Elems(r.vec, r.heap, v) = Elems(vec, heap, v)

\* A container of three elements, not all alike, whose middle one goes.
C7_Witness ==
    \E v \in Vecs :
        /\ Alive(v) /\ Size(v) = 3
        /\ Elems(vec, heap, v) = <<DefaultVal, MaxVal, DefaultVal>>
        /\ Called(Erase(Start, v, 1, 0))

-----------------------------------------------------------------------------
(* C8: copy-constructing w from v yields w.Size() == v.Size(),             *)
(* w.Capacity() == v.Size() and w[i] == v[i], in a block of w's own; and   *)
(* no call on one container that does not take the other one to change it  *)
(* changes the other's size, capacity, block or elements.                  *)
\* Container o and its block are in machine m what they are in the state.
Untouched(m, o) ==
    /\ m.vec[o] = vec[o]
    /\ Buffer(o) # NullBlock => m.heap[Buffer(o)] = heap[Buffer(o)]

C8_CopyIsIndependent ==
    \A v \in Vecs :
        LET o == Other(v)
        IN /\ (copyable /\ ~Alive(v) /\ Alive(o)) =>
                  LET r == VectorCopy(Start, v, o, 0)
                  IN /\ r.exc = "none"
                     /\ r.vec[v].size = Size(o)
                     /\ r.vec[v].data.capacity = Size(o)
                     /\ Elems(r.vec, r.heap, v) = Elems(vec, heap, o)
                     /\ r.vec[v].data.buffer # NullBlock => r.vec[v].data.buffer # Buffer(o)
                     /\ Untouched(r, o)
           /\ Alive(o) => OwnCalls(v, LAMBDA m : Untouched(m, o))

\* A container of two unlike elements in a full block is about to be copied.
C8_Witness ==
    \E v \in Vecs :
        LET o == Other(v)
        IN /\ copyable /\ Alive(o) /\ Size(o) = 2 /\ Capacity(o) = 2
           /\ Elems(vec, heap, o) = <<DefaultVal, MaxVal>>
           /\ ~Alive(v)
           /\ Called(VectorCopy(Start, v, o, 0))

-----------------------------------------------------------------------------
(* C9: moving v into w (w != v) by move construction or move assignment    *)
(* gives w exactly v's size, capacity and elements, constructs and assigns *)
(* no element, and leaves v as a default-constructed container: Size() ==  *)
(* 0, Capacity() == 0, no block.                                           *)
C9_Transferred(m, v, o) ==
    /\ m.exc = "none"
    /\ View(m.vec, m.heap, v) = View(vec, heap, o)
    /\ m.vec[v].data = vec[o].data
    /\ Buffer(o) # NullBlock => m.heap[Buffer(o)] = heap[Buffer(o)]
    /\ m.ctor = 0 /\ m.k = 0 /\ m.alloc = 0
    /\ m.vec[o] = VectorDefault(Start, o).vec[o]

C9_MoveTransfers ==
    \A v \in Vecs :
        LET o == Other(v)
        IN /\ (~Alive(v) /\ Alive(o)) => C9_Transferred(VectorMove(Start, v, o), v, o)
           /\ (Alive(v) /\ Alive(o)) => C9_Transferred(MoveAssign(Start, v, o), v, o)

\* A container of two elements is about to be moved into.
C9_Witness ==
    \E v \in Vecs :
        LET o == Other(v)
        IN /\ Alive(o) /\ Size(o) = 2 /\ Capacity(o) = 3
           /\ Elems(vec, heap, o) = <<DefaultVal, MaxVal>>
           /\ ~Alive(v)
           /\ Called(VectorMove(Start, v, o))

-----------------------------------------------------------------------------
(* C10: Reserve(k) with k <= Capacity() constructs, destroys, allocates    *)
(* and deallocates nothing and leaves the capacity, the size, the block    *)
(* and its address and every element: the machine ends as it started.      *)
C10_ReserveWithinCapacity ==
    \A v \in Vecs, n \in Sizes :
        (Alive(v) /\ n <= Capacity(v)) =>
            \A f \in 0..1 : Reserve(Start, v, n, f) = Start

\* A container that holds elements is asked for the capacity it has.
C10_Witness ==
    \E v \in Vecs :
        /\ Alive(v) /\ Size(v) = 1 /\ Capacity(v) = 2
        /\ Called(Reserve(Start, v, 2, 0))

-----------------------------------------------------------------------------
(* C11: Reserve(n) with n > Capacity() that completes yields Capacity() == *)
(* n exactly, leaves Size() and every element, destroys each of the old    *)
(* block's Size() elements once and deallocates the old block.             *)
C11_ReserveGrowsExactly ==
    \A v \in Vecs, n \in Sizes :
        (Alive(v) /\ n > Capacity(v)) =>
            LET r == Reserve(Start, v, n, 0)
                old == Buffer(v)
            IN /\ r.exc = "none"
               /\ r.vec[v].data.capacity = n
               /\ r.vec[v].size = Size(v)
               /\ Elems(r.vec, r.heap, v) = Elems(vec, heap, v)
               /\ r.ctor = Size(v) /\ r.dtor = Size(v)
               /\ WellFormed(vec, heap, v) => r.lost = 0
               /\ r.alloc = 1
               /\ r.vec[v].data.buffer # old
               /\ DOMAIN r.heap[r.vec[v].data.buffer] = 0..(n - 1)
               /\ old # NullBlock => (r.dealloc = 1 /\ r.heap[old] = EmptyBlock)
               /\ old = NullBlock => r.dealloc = 0

\* A full container of two unlike elements is about to be given a third slot.
C11_Witness ==
    \E v \in Vecs :
        /\ Alive(v) /\ Size(v) = 2 /\ Capacity(v) = 2
        /\ Elems(vec, heap, v) = <<MaxVal, DefaultVal>>
        /\ Called(Reserve(Start, v, 3, 0))

-----------------------------------------------------------------------------
(* C12: a copy-assignment w = v that completes yields w.Size() == v.Size() *)
(* and w[i] == v[i] and leaves v; with v.Size() <= w.Capacity() it keeps   *)
(* w's block and capacity, allocates nothing, copy-constructs exactly      *)
(* max(0, v.Size() - w.Size()) elements and destroys exactly max(0,        *)
(* w.Size() - v.Size()); with v.Size() > w.Capacity() it yields            *)
(* w.Capacity() == v.Size().                                               *)
C12_CopyAssignCopies ==
    \A v \in Vecs, o \in Vecs :
        (copyable /\ Alive(v) /\ Alive(o)) =>
            LET r == CopyAssign(Start, v, o, 0)
            IN /\ r.exc = "none"
               /\ r.vec[v].size = Size(o)
               /\ Elems(r.vec, r.heap, v) = Elems(vec, heap, o)
               /\ View(r.vec, r.heap, o) = View(vec, heap, o)
               /\ o # v => Untouched(r, o)
               /\ Size(o) <= Capacity(v) =>
                      /\ r.vec[v].data = vec[v].data
                      /\ r.alloc = 0 /\ r.dealloc = 0
                      /\ r.ctor = Max(0, Size(o) - Size(v))
                      /\ r.dtor = Max(0, Size(v) - Size(o))
               /\ Size(o) > Capacity(v) => r.vec[v].data.capacity = Size(o)

\* A container of two elements and three slots is about to be assigned a
\* container of one element that differs from its first.
C12_Witness ==
    \E v \in Vecs :
        LET o == Other(v)
        IN /\ copyable /\ Alive(v) /\ Alive(o)
           /\ Size(v) = 2 /\ Capacity(v) = 3 /\ Elems(vec, heap, v) = <<DefaultVal, DefaultVal>>
           /\ Elems(vec, heap, o) = <<MaxVal>>
           /\ Called(CopyAssign(Start, v, o, 0))

-----------------------------------------------------------------------------
(* C13: in a copy-assignment w = v with v.Size() > w.Capacity(), when the  *)
(* allocation or an element copy throws, w's size, capacity, block and     *)
(* elements and v are what they were, the copies made for the temporary    *)
(* are destroyed and its block is deallocated.                             *)
C13_CopyAssignStrong ==
    \A v \in Vecs :
        LET o == Other(v)
        IN (copyable /\ Alive(v) /\ Alive(o) /\ Size(o) > Capacity(v)) =>
               \A f \in FailPoints(CopyAssign(Start, v, o, 0)) :
                   LET r == CopyAssign(Start, v, o, f)
                   IN r.exc # "none" =>
                          /\ r.vec = vec /\ r.heap = heap
                          /\ r.ctor = r.dtor /\ r.alloc = r.dealloc
                          /\ r.lost = 0

\* The copy of the second of two elements throws, in an assignment to a
\* container that holds one element in one slot.
C13_Witness ==
    \E v \in Vecs :
        LET o == Other(v)
        IN /\ copyable /\ Alive(v) /\ Alive(o)
           /\ Size(v) = 1 /\ Capacity(v) = 1 /\ Size(o) = 2
           /\ 3 \in FailPoints(CopyAssign(Start, v, o, 0))
           /\ CopyAssign(Start, v, o, 3).exc = "element"
           /\ CopyAssign(Start, v, o, 1).exc = "bad_alloc"

-----------------------------------------------------------------------------
(* C14: Insert/Emplace at any position p, 0 <= p <= Size(), with spare     *)
(* capacity or reallocating, has no observable effect when an element      *)
(* construction, move or assignment it performs throws: the size, the      *)
(* capacity and the element at every index are what they were.             *)
C14_InsertUnchangedOnThrow ==
    \A v \in Vecs :
        Alive(v) =>
            \A p \in 0..Size(v), x \in Values :
                \A f \in FailPoints(Emplace(Start, v, p, x, 0)) :
                    LET r == Emplace(Start, v, p, x, f)
                    IN r.exc = "element" => View(r.vec, r.heap, v) = View(vec, heap, v)

-----------------------------------------------------------------------------
(* C15: Resize(n) that completes yields Size() == n; the elements at       *)
(* [0, min(old size, n)) keep their values; for n > old size those at      *)
(* [old size, n) equal T's default value; for n < old size exactly old     *)
(* size - n elements are destroyed and the capacity stays; for n >         *)
(* Capacity() the capacity becomes exactly n.                              *)
Min(a, b) == IF a <= b THEN a ELSE b

C15_ResizeSetsSize ==
    \A v \in Vecs, n \in Sizes :
        Alive(v) =>
            LET r == Resize(Start, v, n, 0)
                was == Elems(vec, heap, v)
                now == Elems(r.vec, r.heap, v)
            IN /\ r.exc = "none"
               /\ r.vec[v].size = n
               /\ \A i \in 1..Min(Size(v), n) : now[i] = was[i]
               /\ \A i \in (Size(v) + 1)..n : now[i] = DefaultVal
               /\ n < Size(v) =>
                      /\ r.dtor = Size(v) - n /\ r.ctor = 0
                      /\ r.vec[v].data = vec[v].data
               /\ n > Capacity(v) => r.vec[v].data.capacity = n
               /\ n <= Capacity(v) => r.vec[v].data = vec[v].data

\* A full container of two elements that are not the default value is
\* about to be resized: it can grow past its capacity, and it can shrink.
C15_Witness ==
    \E v \in Vecs :
        /\ Alive(v) /\ Size(v) = 2 /\ Capacity(v) = 2
        /\ Elems(vec, heap, v) = <<MaxVal, MaxVal>>
        /\ Called(Resize(Start, v, 4, 0))
        /\ Called(Resize(Start, v, 1, 0))

-----------------------------------------------------------------------------
(* C16: for all n >= 0 the sized constructor yields Size() == n,           *)
(* Capacity() == n, with no allocation for n == 0, and every element at    *)
(* [0, n) equal to T's default value.                                      *)
C16_SizedConstruction ==
    \A v \in Vecs, n \in Sizes :
        ~Alive(v) =>
            LET r == VectorSized(Start, v, n, 0)
            IN /\ r.exc = "none"
               /\ r.vec[v].alive
               /\ r.vec[v].size = n
               /\ r.vec[v].data.capacity = n
               /\ Elems(r.vec, r.heap, v) = [i \in 1..n |-> DefaultVal]
               /\ r.ctor = n
               /\ r.alloc = (IF n = 0 THEN 0 ELSE 1)
               /\ (r.vec[v].data.buffer = NullBlock) <=> (n = 0)
               /\ WellFormed(r.vec, r.heap, v)

\* A container is about to be constructed with three elements beside one
\* that holds an element that is not the default value.
C16_Witness ==
    \E v \in Vecs :
        /\ ~Alive(v)
        /\ Alive(Other(v)) /\ Elems(vec, heap, Other(v)) = <<MaxVal>>
        /\ Capacity(Other(v)) = 1
        /\ Called(VectorSized(Start, v, 3, 0))
        /\ Called(VectorSized(Start, v, 0, 0))

-----------------------------------------------------------------------------
(* C17: elements relocated to new storage (by a growing Reserve, and as    *)
(* prefix and suffix of a reallocating Emplace) are moved if T's move      *)
(* construction cannot throw or T is not copy-constructible, and copied    *)
(* otherwise; copied, the old elements keep their values until they are    *)
(* destroyed; and the old elements are destroyed only after every          *)
(* relocation and the construction of the new element have succeeded.      *)
\* The relocation of machine m, which started in the state and relocated
\* `moved` elements of container v by move before it threw, or completed:
\* a call that throws has destroyed no old element and left the copied
\* ones their values and the moved ones moved-from; one that completes
\* has destroyed the old elements, all of them.
C17_Relocated(m, v, moved) ==
    LET b == Buffer(v)
    IN /\ m.exc = "none" => m.dtor = Size(v)
       /\ m.exc # "none" =>
              /\ m.vec[v] = vec[v]
              /\ \A i \in 0..(Size(v) - 1) :
                     /\ m.heap[b][i] # Raw
                     /\ m.heap[b][i] = IF (nothrowMove \/ ~copyable) /\ i < moved
                                       THEN MovedFrom ELSE heap[b][i]
       /\ (m.exc = "none" /\ nothrowMove) => m.k = m.alloc + m.ctor - Size(v)

C17_RelocationRule ==
    \A v \in Vecs :
        Alive(v) =>
            /\ \A n \in Sizes :
                   n > Capacity(v) =>
                       \A f \in FailPoints(Reserve(Start, v, n, 0)) :
                           LET r == Reserve(Start, v, n, f)
                           IN C17_Relocated(r, v, r.ctor)
            /\ Size(v) = Capacity(v) =>
                   \A p \in 0..Size(v), x \in Values :
                       \A f \in FailPoints(Emplace(Start, v, p, x, 0)) :
                           LET r == Emplace(Start, v, p, x, f)
                           IN C17_Relocated(r, v, IF r.ctor > p THEN r.ctor - 1 ELSE r.ctor)

\* Elements that are copied: in a full container of two unlike elements
\* the construction of the element inserted between them throws after the
\* first was relocated, and so does the relocation of the second in a
\* Reserve.
C17_Witness ==
    \E v \in Vecs, x \in Values :
        /\ ~nothrowMove /\ copyable
        /\ Alive(v) /\ Size(v) = 2 /\ Capacity(v) = 2
        /\ Elems(vec, heap, v) = <<MaxVal, DefaultVal>>
        /\ 3 \in FailPoints(Emplace(Start, v, 1, x, 0))
        /\ Emplace(Start, v, 1, x, 3).exc = "element"
        /\ Reserve(Start, v, 3, 3).exc = "element"
        /\ Called(Emplace(Start, v, 1, x, 0))

-----------------------------------------------------------------------------
(* C18: when the value passed to PushBack/Insert/Emplace is a reference to *)
(* an element v[i] of the same container, the inserted element equals the  *)
(* value v[i] had before the call and the other elements keep theirs, with *)
(* spare capacity and reallocating, relocated by move and by copy.         *)
C18_AliasedValueInserted ==
    \A v \in Vecs :
        (copyable /\ Alive(v)) =>
            \A p \in 0..Size(v), i \in 0..(Size(v) - 1) :
                LET r == EmplaceFrom(Start, v, p, i, 0)
                    was == Elems(vec, heap, v)
                IN /\ r.exc = "none"
                   /\ Elems(r.vec, r.heap, v) = InsertAt(was, p, was[i + 1])

-----------------------------------------------------------------------------
(* C19: in every reachable state a RawMemory has a null block iff its      *)
(* capacity is 0, no block is owned by two RawMemory objects, and every    *)
(* allocated block is deallocated exactly once: none twice, and none is    *)
(* left when its owner is gone.  After a move the source has capacity 0    *)
(* and a null block, and a move assignment deallocates the block the       *)
(* destination held.                                                       *)
AllocatedBlocks(h) == {b \in Blocks : DOMAIN h[b] # {}}

\* The RawMemory objects of the containers vc own the blocks of heap h,
\* each block one owner and each owner a block of its capacity.
C19_Owned(vc, h) ==
    /\ \A v \in Vecs :
           LET d == vc[v].data
           IN /\ (d.buffer = NullBlock) <=> (d.capacity = 0)
              /\ d.buffer # NullBlock => DOMAIN h[d.buffer] = 0..(d.capacity - 1)
              /\ ~vc[v].alive => d = EmptyRawMemory
    /\ \A v \in Vecs :
           vc[v].data.buffer # NullBlock =>
               \A u \in Vecs \ {v} : vc[v].data.buffer # vc[u].data.buffer
    /\ \A b \in AllocatedBlocks(h) : \E v \in Vecs : vc[v].data.buffer = b

\* A call deallocates what it allocated and what it has taken from an
\* owner, once each.
C19_Accounted(m) ==
    /\ C19_Owned(m.vec, m.heap)
    /\ m.alloc - m.dealloc = Cardinality(AllocatedBlocks(m.heap)) - Cardinality(AllocatedBlocks(heap))

C19_RawMemoryOwnership ==
    /\ C19_Owned(vec, heap)
    /\ EveryCall(C19_Accounted)
    /\ \A v \in Vecs :
           LET o == Other(v)
           IN /\ (~Alive(v) /\ Alive(o)) =>
                     LET r == VectorMove(Start, v, o)
                     IN /\ r.vec[o].data = EmptyRawMemory
                        /\ r.vec[v].data = vec[o].data
                        /\ r.heap = heap
              /\ (Alive(v) /\ Alive(o)) =>
                     LET r == RawMemoryMoveAssign(Start, v, o)
                     IN /\ r.vec[o].data = EmptyRawMemory
                        /\ r.vec[v].data = vec[o].data
                        /\ r.dealloc = (IF Buffer(v) = NullBlock THEN 0 ELSE 1)
                        /\ Buffer(v) # NullBlock => r.heap[Buffer(v)] = EmptyBlock
                        /\ Buffer(o) # NullBlock => DOMAIN r.heap[Buffer(o)] = DOMAIN heap[Buffer(o)]

\* Two containers that own a block each; one is about to be move-assigned
\* the other.
C19_Witness ==
    \E v \in Vecs :
        LET o == Other(v)
        IN /\ Alive(v) /\ Alive(o)
           /\ Capacity(v) = 1 /\ Capacity(o) = 2
           /\ Called(MoveAssign(Start, v, o))
           /\ Called(Swap(Start, v, o))

=============================================================================
